---- MODULE Spec2Model ----
(***************************************************************************)
(* pgbedrock privilege reconciliation (src/pgbedrock/privileges.py).       *)
(*                                                                         *)
(* The model follows analyze_privileges: the spec graph is resolved        *)
(* (role members, schema writers, personal schemas), then every role of    *)
(* the spec is visited in order and, for a role that is not a superuser,   *)
(* one PrivilegeAnalyzer is run per object kind and access level.  The     *)
(* statements that are returned can be applied to the snapshot and the     *)
(* analysis run a second time over the same spec object.                   *)
(*                                                                         *)
(* Strings of the spec are kept in parsed form: a privilege target is a    *)
(* record [form, schema, name]; a database object (DBObject) is a record   *)
(* [schema, name] whose name is "" for a schema itself.                    *)
(***************************************************************************)
EXTENDS Integers, Sequences, FiniteSets, TLC

VARIABLES
    spec,             \* the spec mapping: role -> config (lists are mutable)
    spec_in,          \* the spec as it was handed to the current call
    owners,           \* dbcontext.get_all_object_attributes(): kind -> (object -> owner)
    dbSuper,          \* roles for which dbcontext.is_superuser is true
    curNondef,        \* dbcontext.get_role_current_nondefaults: role -> kind -> access -> set
    curDef,           \* dbcontext.get_role_current_defaults:    role -> kind -> access -> set
    pc,               \* position of analyze_privileges
    error,            \* the failure that ended the call, "none" while there is none
    members_of_role,  \* determine_role_members(spec)
    schema_writers,   \* determine_schema_writers(spec)
    personal_schemas, \* determine_personal_schemas(spec)
    pos,              \* loop position: [i (role), k (object kind), a (access)]
    all_sql_to_run,   \* statements collected so far
    returned,         \* the list analyze_privileges returned (<<>> before it returns)
    first_sql,        \* what the first call returned, kept once it has been applied
    run,              \* "first" or "second" call
    privconf          \* the PrivilegeAnalyzer constructed last

vars == <<spec, spec_in, owners, dbSuper, curNondef, curDef, pc, error,
          members_of_role, schema_writers, personal_schemas, pos,
          all_sql_to_run, returned, first_sql, run, privconf>>

----------------------------------------------------------------------------
(* Bounds of the model *)

\* longest read list of a role's privileges in the item-rich initial states
MaxItems == 2

\* depth at which the interpreter's recursion limit ends a call of get_members
RecursionLimit == 4

----------------------------------------------------------------------------
(* Universe *)

Roles == {"a", "b", "c"}

\* spec.items(): the spec is an ordered mapping
RoleOrder == <<"a", "b", "c">>

NoRole == "-"

Access == <<"read", "write">>

\* PRIVILEGE_MAP.keys()
KindOrder == <<"schemas", "sequences", "tables">>

Kinds == {KindOrder[n] : n \in 1..Len(KindOrder)}

\* PRIVILEGE_MAP: object kind -> access -> privilege verbs
PRIVILEGE_MAP ==
    [k \in Kinds |->
        IF k = "schemas"
        THEN [read |-> {"USAGE"}, write |-> {"CREATE"}]
        ELSE IF k = "sequences"
        THEN [read |-> {"SELECT"}, write |-> {"USAGE", "UPDATE"}]
        ELSE [read |-> {"SELECT"},
              write |-> {"INSERT", "UPDATE", "DELETE", "TRUNCATE", "REFERENCES", "TRIGGER"}]]

OBJECTS_WITH_DEFAULTS == {"functions", "tables", "sequences", "types"}

\* alphabetical order of the strings that are sorted
Alphabet == <<"", "CREATE", "DELETE", "INSERT", "REFERENCES", "SELECT", "TRIGGER",
              "TRUNCATE", "UPDATE", "USAGE", "a", "b", "c", "g", "s", "t1", "t2", "u">>

Rank(str) == CHOOSE n \in 1..Len(Alphabet) : Alphabet[n] = str

----------------------------------------------------------------------------
(* Privilege targets and database objects *)

Item(form, schema, name) == [form |-> form, schema |-> schema, name |-> name]

PS == Item("personal_schemas", "", "")        \* 'personal_schemas'
PSWild == Item("personal_schemas.*", "", "")  \* 'personal_schemas.*'
Wild(schema) == Item("wildcard", schema, "")  \* 'schema.*'
Single(schema, name) == Item("single", schema, name)  \* 'schema.name', or 'schema'

DBObject(schema, name) == [schema |-> schema, name |-> name]

\* common.ensure_quoted_identifier(item), compared with DBObject.qualified_name:
\* both name an object by its schema and its (quoted) object name
ensure_quoted_identifier(item) == DBObject(item.schema, item.name)

\* an optional list of a config: the key may be absent
Absent == [present |-> FALSE, items |-> <<>>]
List(items) == [present |-> TRUE, items |-> items]

\* dict.get(key, []) on an optional list
GetList(opt) == IF opt.present THEN opt.items ELSE <<>>

NoPrivileges == [k \in Kinds |-> [read |-> Absent, write |-> Absent]]

Config(su, ps, mo, ow, pr) ==
    [is_superuser |-> su, has_personal_schema |-> ps, member_of |-> mo,
     owns |-> ow, privileges |-> pr]

SeqToSet(s) == {s[n] : n \in 1..Len(s)}

----------------------------------------------------------------------------
(* Spec graph resolver *)

Ok(v) == [err |-> "none", val |-> v]
Failed(e) == [err |-> e, val |-> {}]

RECURSIVE get_members_from(_, _, _, _, _)

\* one call of get_members at the given recursion depth; the interpreter raises
\* RecursionError when the depth passes its limit
get_members(group, sp, depth) ==
    IF depth > RecursionLimit
    THEN Failed("RecursionError")
    ELSE get_members_from(group, sp, depth, 1, {})

\* the loop "for role, config in spec.items()" of get_members, from entry n on
get_members_from(group, sp, depth, n, members) ==
    IF n > Len(RoleOrder)
    THEN Ok(members)
    ELSE LET role == RoleOrder[n] IN
         IF group \in sp[role].member_of
         THEN LET sub_members == get_members(role, sp, depth + 1) IN
              IF sub_members.err # "none"
              THEN sub_members
              ELSE get_members_from(group, sp, depth, n + 1,
                                    members \cup {role} \cup sub_members.val)
         ELSE get_members_from(group, sp, depth, n + 1, members)

determine_role_members(sp) ==
    IF \E role \in Roles : get_members(role, sp, 1).err # "none"
    THEN Failed("RecursionError")
    ELSE Ok([role \in Roles |-> get_members(role, sp, 1).val])

determine_personal_schemas(sp) ==
    {role \in Roles : sp[role].has_personal_schema}

\* dict[key] = value
Put(dict, key, value) ==
    [x \in DOMAIN dict \cup {key} |-> IF x = key THEN value ELSE dict[x]]

EmptyDict == [x \in {} |-> NoRole]

RECURSIVE determine_schema_owners_from(_, _, _)

determine_schema_owners_from(sp, n, schema_owners) ==
    IF n > Len(RoleOrder)
    THEN schema_owners
    ELSE LET role == RoleOrder[n]
             owned == [x \in DOMAIN schema_owners \cup sp[role].owns |->
                          IF x \in sp[role].owns THEN role ELSE schema_owners[x]]
             personal == IF sp[role].has_personal_schema
                         THEN Put(owned, role, role)
                         ELSE owned
         IN  determine_schema_owners_from(sp, n + 1, personal)

determine_schema_owners(sp) == determine_schema_owners_from(sp, 1, EmptyDict)

determine_superusers(sp) == {role \in Roles : sp[role].is_superuser}

\* the string of a target, as far as it can name a schema
ItemString(item) ==
    IF item.form = "single" /\ item.name = "" THEN item.schema
    ELSE IF item.form = "personal_schemas" THEN "personal_schemas"
    ELSE "not_a_schema"

\* set(config['privileges']['schemas']['write']), personal_schemas expanded
WritableSchemas(sp, role) ==
    LET listed == {ItemString(x) :
                     x \in SeqToSet(GetList(sp[role].privileges["schemas"].write))}
    IN  IF "personal_schemas" \in listed
        THEN (listed \ {"personal_schemas"}) \cup determine_personal_schemas(sp)
        ELSE listed

RECURSIVE AddWriters(_, _, _, _)

\* the loop "for role, config in spec.items()" of determine_schema_writers, from
\* entry n on; writers[schema] raises KeyError for a schema that has no owner
AddWriters(sp, members, n, writers) ==
    IF n > Len(RoleOrder)
    THEN Ok(writers)
    ELSE LET role == RoleOrder[n]
             writable_schemas == WritableSchemas(sp, role)
         IN  IF \E schema \in writable_schemas : schema \notin DOMAIN writers
             THEN Failed("KeyError")
             ELSE AddWriters(sp, members, n + 1,
                     [x \in DOMAIN writers |->
                         IF x \in writable_schemas
                         THEN writers[x] \cup {role} \cup members[role]
                         ELSE writers[x]])

\* determine_schema_writers after members_of_role has been computed
determine_schema_writers(sp, members) ==
    LET schema_owners == determine_schema_owners(sp)
        seeded == [x \in DOMAIN schema_owners |-> {schema_owners[x]}]
        added == AddWriters(sp, members, 1, seeded)
        superusers == determine_superusers(sp)
    IN  IF added.err # "none"
        THEN added
        ELSE Ok([x \in DOMAIN added.val |-> added.val[x] \cup superusers])

----------------------------------------------------------------------------
(* Statements *)

NoObject == DBObject("", "")

Statement(stmt, rolename, object_kind, objname, grantor, schema, privilege) ==
    [stmt |-> stmt, rolename |-> rolename, object_kind |-> object_kind,
     objname |-> objname, grantor |-> grantor, schema |-> schema,
     privilege |-> privilege]

\* SKIP_SUPERUSER_PRIVILEGE_CONFIGURATION_MSG.format(rolename)
SkipNote(rolename) == Statement("SKIP", rolename, "", NoObject, "", "", "")

grant_nondefault(self, objname, privilege) ==
    Statement("GRANT", self.rolename, self.object_kind, objname, "", "", privilege)

revoke_nondefault(self, objname, privilege) ==
    Statement("REVOKE", self.rolename, self.object_kind, objname, "", "", privilege)

grant_default(self, grantor, schema, privilege) ==
    Statement("GRANT_DEFAULT", self.rolename, self.object_kind, NoObject,
              grantor, schema, privilege)

revoke_default(self, grantor, schema, privilege) ==
    Statement("REVOKE_DEFAULT", self.rolename, self.object_kind, NoObject,
              grantor, schema, privilege)

IsGrantOrRevoke(st) == st.stmt # "SKIP"

\* sorted(): tuples are compared component by component, strings alphabetically
LexLess(x, y) ==
    \/ x[1] < y[1]
    \/ x[1] = y[1] /\ x[2] < y[2]
    \/ x[1] = y[1] /\ x[2] = y[2] /\ x[3] < y[3]

NondefaultKey(t) == <<Rank(t[1].schema), Rank(t[1].name), Rank(t[2])>>

DefaultKey(t) == <<Rank(t[1]), Rank(t[2]), Rank(t[3])>>

RECURSIVE SortKeyed(_)

\* the sequence of the pairs [key, val] of S in ascending order of key
SortKeyed(S) ==
    IF S = {}
    THEN <<>>
    ELSE LET least == CHOOSE x \in S : \A y \in S \ {x} : LexLess(x.key, y.key)
         IN  <<least.val>> \o SortKeyed(S \ {least})

SortedNondefaults(S) == SortKeyed({[key |-> NondefaultKey(t), val |-> t] : t \in S})

SortedDefaults(S) == SortKeyed({[key |-> DefaultKey(t), val |-> t] : t \in S})

----------------------------------------------------------------------------
(* PrivilegeAnalyzer *)

\* PrivilegeAnalyzer.__init__
NewAnalyzer(rolename, access, object_kind, desired_items) ==
    [active |-> TRUE,
     rolename |-> rolename,
     access |-> access,
     object_kind |-> object_kind,
     desired_items |-> desired_items,
     default_acl_possible |-> object_kind \in OBJECTS_WITH_DEFAULTS,
     current_defaults |-> curDef[rolename][object_kind][access],
     current_nondefaults |-> curNondef[rolename][object_kind][access],
     desired_nondefaults |-> {},
     desired_defaults |-> {},
     err |-> "none",
     sql_to_run |-> <<>>]

NoAnalyzer ==
    [active |-> FALSE, rolename |-> NoRole, access |-> "", object_kind |-> "",
     desired_items |-> <<>>, default_acl_possible |-> FALSE,
     current_defaults |-> {}, current_nondefaults |-> {},
     desired_nondefaults |-> {}, desired_defaults |-> {},
     err |-> "none", sql_to_run |-> <<>>]

\* the owner found in all_object_attrs, NoRole when there is none
OwnerOf(objkind, dbo) ==
    IF dbo \in DOMAIN owners[objkind] THEN owners[objkind][dbo] ELSE NoRole

\* the lookup without the check that an owner was found
get_object_owner_unchecked(self, dbo) == Ok(OwnerOf(self.object_kind, dbo))

\* get_object_owner: the owner, or the "does not exist" failure
get_object_owner(self, dbo) ==
    LET owner == OwnerOf(self.object_kind, dbo)
    IN  IF owner # NoRole THEN Ok(owner) ELSE Failed("does_not_exist")

get_schema_objects(self, schema) ==
    {dbo \in DOMAIN owners[self.object_kind] :
        dbo.schema = schema /\ owners[self.object_kind][dbo] # self.rolename}

\* what the item loop does with the keyword 'personal_schemas' under object kind
\* 'schemas': every personal schema becomes a desired object
PersonalSchemaObjects(self) == {DBObject(role, "") : role \in personal_schemas}

\* what the item loop does with a single target whose owner was found
SingleTarget(self, quoted_item, owner) ==
    IF owner # self.rolename THEN {quoted_item} ELSE {}

RECURSIVE ScanItems(_, _, _, _)

\* the keyword passed over instead of refused
PersonalSchemasSkipped(self, n, objs, schemas) == ScanItems(self, n + 1, objs, schemas)

\* what the item loop does with 'personal_schemas' under another object kind
PersonalSchemasMisuse(self, n, objs, schemas) ==
    [err |-> "personal_schemas", objs |-> objs, schemas |-> schemas]

\* the loop "for item in self.desired_items" of identify_desired_objects, from
\* item n on; common.fail ends the run at the first item that fails
ScanItems(self, n, objs, schemas) ==
    IF n > Len(self.desired_items)
    THEN [err |-> "none", objs |-> objs, schemas |-> schemas]
    ELSE LET item == self.desired_items[n] IN
         IF item.form = "personal_schemas" /\ self.object_kind = "schemas"
         THEN ScanItems(self, n + 1, objs \cup PersonalSchemaObjects(self), schemas)
         ELSE IF item.form = "personal_schemas"
         THEN PersonalSchemasMisuse(self, n, objs, schemas)
         ELSE IF item.form = "personal_schemas.*"
         THEN ScanItems(self, n + 1, objs, schemas \cup personal_schemas)
         ELSE IF item.form = "single"
         THEN LET quoted_item == ensure_quoted_identifier(item)
                  owner == get_object_owner(self, quoted_item)
              IN  IF owner.err # "none"
                  THEN [err |-> owner.err, objs |-> objs, schemas |-> schemas]
                  ELSE ScanItems(self, n + 1,
                                 objs \cup SingleTarget(self, quoted_item, owner.val),
                                 schemas)
         ELSE ScanItems(self, n + 1, objs, schemas \cup {item.schema})

\* every writer, the analyzed role included
AllWriters(self, schema) == schema_writers[schema]

\* the writers of a schema the role is granted default privileges from
DefaultGrantors(self, schema) ==
    {writer \in schema_writers[schema] : writer # self.rolename}

\* the body of the loop "for schema in schemas" of determine_desired_defaults
DefaultsInSchema(self, schema) ==
    {<<writer, schema, pg_priv_kind>> :
        writer \in DefaultGrantors(self, schema),
        pg_priv_kind \in PRIVILEGE_MAP[self.object_kind][self.access]}

\* determine_desired_defaults: self.schema_writers[schema] raises KeyError for a
\* schema the schema-writer map does not hold
determine_desired_defaults(self, schemas) ==
    IF \E schema \in schemas : schema \notin DOMAIN schema_writers
    THEN Failed("KeyError")
    ELSE Ok(UNION {DefaultsInSchema(self, schema) : schema \in schemas})

identify_desired_objects(self) ==
    LET scanned == ScanItems(self, 1, {}, {})
        desired_nondefault_objs ==
            scanned.objs \cup UNION {get_schema_objects(self, x) : x \in scanned.schemas}
        priv_types == PRIVILEGE_MAP[self.object_kind][self.access]
        defaults == IF self.default_acl_possible
                    THEN determine_desired_defaults(self, scanned.schemas)
                    ELSE Ok({})
    IN  IF scanned.err # "none"
        THEN [self EXCEPT !.err = scanned.err]
        ELSE IF defaults.err # "none"
        THEN [self EXCEPT !.err = defaults.err,
                          !.desired_nondefaults = desired_nondefault_objs \X priv_types]
        ELSE [self EXCEPT !.desired_nondefaults = desired_nondefault_objs \X priv_types,
                          !.desired_defaults = defaults.val]

\* a diff that forgets what the role already holds
nondefaults_to_grant_all(self) == self.desired_nondefaults

nondefaults_to_grant(self) == self.desired_nondefaults \ self.current_nondefaults

nondefaults_to_revoke(self) == self.current_nondefaults \ self.desired_nondefaults

defaults_to_grant(self) == self.desired_defaults \ self.current_defaults

defaults_to_revoke(self) == self.current_defaults \ self.desired_defaults

analyze_nondefaults(self) ==
    LET grants == SortedNondefaults(nondefaults_to_grant(self))
        revokes == SortedNondefaults(nondefaults_to_revoke(self))
    IN  [n \in 1..Len(grants) |-> grant_nondefault(self, grants[n][1], grants[n][2])]
        \o [n \in 1..Len(revokes) |-> revoke_nondefault(self, revokes[n][1], revokes[n][2])]

analyze_defaults(self) ==
    LET grants == SortedDefaults(defaults_to_grant(self))
        revokes == SortedDefaults(defaults_to_revoke(self))
    IN  [n \in 1..Len(grants) |->
            grant_default(self, grants[n][1], grants[n][2], grants[n][3])]
        \o [n \in 1..Len(revokes) |->
               revoke_default(self, revokes[n][1], revokes[n][2], revokes[n][3])]

\* PrivilegeAnalyzer.analyze
analyze(self) ==
    LET identified == identify_desired_objects(self)
    IN  IF identified.err # "none"
        THEN identified
        ELSE [identified EXCEPT !.sql_to_run =
                 analyze_nondefaults(identified)
                 \o IF identified.default_acl_possible
                    THEN analyze_defaults(identified)
                    ELSE <<>>]

----------------------------------------------------------------------------
(* analyze_privileges *)

\* the flag of the spec taken for the answer of the database
is_superuser_in_spec(rolename) == spec[rolename].is_superuser

\* dbcontext.is_superuser(rolename)
is_superuser(rolename) == rolename \in dbSuper

\* the lists taken as they are, write items not added to the read items
DesiredItemsUnfolded(desired_items_this_obj, access) ==
    IF access = "read"
    THEN GetList(desired_items_this_obj.read)
    ELSE GetList(desired_items_this_obj.write)

\* the desired items handed to the analyzer: a write privilege implies read access
DesiredItems(desired_items_this_obj, access) ==
    IF access = "read"
    THEN GetList(desired_items_this_obj.read) \o GetList(desired_items_this_obj.write)
    ELSE GetList(desired_items_this_obj.write)

\* "desired_items += ..." extends the list in place: when the 'read' key exists,
\* desired_items is the list object the spec holds
SpecAfterFold(sp, rolename, object_kind, access) ==
    LET desired_items_this_obj == sp[rolename].privileges[object_kind]
    IN  IF access = "read" /\ desired_items_this_obj.read.present
        THEN [sp EXCEPT ![rolename].privileges[object_kind].read.items =
                 @ \o GetList(desired_items_this_obj.write)]
        ELSE sp

FirstPos == [i |-> 1, k |-> 1, a |-> 1]

\* the next iteration of the loops over object kinds and access levels, or
\* the next role
Advance(p) ==
    IF p.a < Len(Access) THEN [p EXCEPT !.a = p.a + 1]
    ELSE IF p.k < Len(KindOrder) THEN [p EXCEPT !.k = p.k + 1, !.a = 1]
    ELSE [i |-> p.i + 1, k |-> 1, a |-> 1]

\* determine_schema_writers, first line: determine_role_members(spec)
DetermineRoleMembers ==
    /\ pc = "start"
    /\ LET members == determine_role_members(spec)
       IN  IF members.err # "none"
           THEN /\ pc' = "failed"
                /\ error' = members.err
                /\ UNCHANGED members_of_role
           ELSE /\ pc' = "writers"
                /\ members_of_role' = members.val
                /\ UNCHANGED error
    /\ UNCHANGED <<spec, spec_in, owners, dbSuper, curNondef, curDef, schema_writers,
                   personal_schemas, pos, all_sql_to_run, returned, first_sql, run,
                   privconf>>

\* the rest of determine_schema_writers, and determine_personal_schemas
DetermineSchemaWriters ==
    /\ pc = "writers"
    /\ LET writers == determine_schema_writers(spec, members_of_role)
       IN  IF writers.err # "none"
           THEN /\ pc' = "failed"
                /\ error' = writers.err
                /\ UNCHANGED <<schema_writers, personal_schemas, pos>>
           ELSE /\ pc' = "loop"
                /\ schema_writers' = writers.val
                /\ personal_schemas' = determine_personal_schemas(spec)
                /\ pos' = FirstPos
                /\ UNCHANGED error
    /\ UNCHANGED <<spec, spec_in, owners, dbSuper, curNondef, curDef, members_of_role,
                   all_sql_to_run, returned, first_sql, run, privconf>>

\* a superuser role: the note is appended and the role is left
SkipSuperuser ==
    /\ pc = "loop"
    /\ pos.i <= Len(RoleOrder)
    /\ is_superuser(RoleOrder[pos.i])
    /\ all_sql_to_run' = Append(all_sql_to_run, SkipNote(RoleOrder[pos.i]))
    /\ pos' = [i |-> pos.i + 1, k |-> 1, a |-> 1]
    /\ UNCHANGED <<spec, spec_in, owners, dbSuper, curNondef, curDef, pc, error,
                   members_of_role, schema_writers, personal_schemas, returned,
                   first_sql, run, privconf>>

\* one pass of the innermost loop: the analyzer of (role, object kind, access)
RunAnalyzer ==
    /\ pc = "loop"
    /\ pos.i <= Len(RoleOrder)
    /\ ~is_superuser(RoleOrder[pos.i])
    /\ LET rolename == RoleOrder[pos.i]
           object_kind == KindOrder[pos.k]
           access == Access[pos.a]
           desired_items == DesiredItems(spec[rolename].privileges[object_kind], access)
           analyzed == analyze(NewAnalyzer(rolename, access, object_kind, desired_items))
       IN  /\ spec' = SpecAfterFold(spec, rolename, object_kind, access)
           /\ privconf' = analyzed
           /\ IF analyzed.err # "none"
              THEN /\ pc' = "failed"
                   /\ error' = analyzed.err
                   /\ UNCHANGED <<pos, all_sql_to_run>>
              ELSE /\ all_sql_to_run' = all_sql_to_run \o analyzed.sql_to_run
                   /\ pos' = Advance(pos)
                   /\ UNCHANGED <<pc, error>>
    /\ UNCHANGED <<spec_in, owners, dbSuper, curNondef, curDef, members_of_role,
                   schema_writers, personal_schemas, returned, first_sql, run>>

\* return all_sql_to_run
Return ==
    /\ pc = "loop"
    /\ pos.i > Len(RoleOrder)
    /\ pc' = "done"
    /\ returned' = all_sql_to_run
    /\ UNCHANGED <<spec, spec_in, owners, dbSuper, curNondef, curDef, error,
                   members_of_role, schema_writers, personal_schemas, pos,
                   all_sql_to_run, first_sql, run, privconf>>

----------------------------------------------------------------------------
(* Applying the returned statements to the database *)

\* the current sets of a role and object kind after one statement: a GRANT adds
\* its entry, a REVOKE removes it, under the access level that holds the verb
ApplyTo(cur, st, entry, adds) ==
    [cur EXCEPT ![st.rolename][st.object_kind] =
        [acc \in {"read", "write"} |->
            IF st.privilege \in PRIVILEGE_MAP[st.object_kind][acc]
            THEN IF adds THEN @[acc] \cup {entry} ELSE @[acc] \ {entry}
            ELSE @[acc]]]

RECURSIVE ApplyNondefaults(_, _, _)

ApplyNondefaults(cur, stmts, n) ==
    IF n > Len(stmts) THEN cur
    ELSE LET st == stmts[n]
             entry == <<st.objname, st.privilege>>
         IN  ApplyNondefaults(
                 IF st.stmt = "GRANT" THEN ApplyTo(cur, st, entry, TRUE)
                 ELSE IF st.stmt = "REVOKE" THEN ApplyTo(cur, st, entry, FALSE)
                 ELSE cur,
                 stmts, n + 1)

RECURSIVE ApplyDefaults(_, _, _)

ApplyDefaults(cur, stmts, n) ==
    IF n > Len(stmts) THEN cur
    ELSE LET st == stmts[n]
             entry == <<st.grantor, st.schema, st.privilege>>
         IN  ApplyDefaults(
                 IF st.stmt = "GRANT_DEFAULT" THEN ApplyTo(cur, st, entry, TRUE)
                 ELSE IF st.stmt = "REVOKE_DEFAULT" THEN ApplyTo(cur, st, entry, FALSE)
                 ELSE cur,
                 stmts, n + 1)

\* the statements of the first call are run against the database, and
\* analyze_privileges is called again with the same spec object
ApplyStatements ==
    /\ pc = "done"
    /\ run = "first"
    /\ curNondef' = ApplyNondefaults(curNondef, returned, 1)
    /\ curDef' = ApplyDefaults(curDef, returned, 1)
    /\ first_sql' = returned
    /\ run' = "second"
    /\ pc' = "start"
    /\ spec_in' = spec
    /\ all_sql_to_run' = <<>>
    /\ returned' = <<>>
    /\ privconf' = NoAnalyzer
    /\ pos' = FirstPos
    /\ UNCHANGED <<spec, owners, dbSuper, error, members_of_role, schema_writers,
                   personal_schemas>>

Next ==
    \/ DetermineRoleMembers
    \/ DetermineSchemaWriters
    \/ SkipSuperuser
    \/ RunAnalyzer
    \/ Return
    \/ ApplyStatements

----------------------------------------------------------------------------
(* Initial states *)

\* the lists over S of at most n items
Lists(S, n) == UNION {[1..m -> S] : m \in 0..n}

Priv(object_kind, read, write) ==
    [NoPrivileges EXCEPT ![object_kind] = [read |-> read, write |-> write]]

EmptyCurrent == [role \in Roles |-> [k \in Kinds |-> [read |-> {}, write |-> {}]]]

T1 == DBObject("s", "t1")
T2 == DBObject("s", "t2")

\* the ownership snapshot: schema s, the personal schema of every role that has
\* one, and the tables s.t1 and s.t2
Ownership(sp, s_owner, t1_owner) ==
    [k \in Kinds |->
        IF k = "schemas"
        THEN [dbo \in {DBObject("s", "")}
                      \cup {DBObject(role, "") : role \in determine_personal_schemas(sp)} |->
                 IF dbo.schema = "s" THEN s_owner ELSE dbo.schema]
        ELSE IF k = "tables"
        THEN [dbo \in {T1, T2} |-> IF dbo = T1 THEN t1_owner ELSE "b"]
        ELSE EmptyDict]

InitWith(sp, own, superusers, nondefaults, defaults) ==
    /\ spec = sp
    /\ spec_in = sp
    /\ owners = own
    /\ dbSuper = superusers
    /\ curNondef = nondefaults
    /\ curDef = defaults
    /\ pc = "start"
    /\ error = "none"
    /\ members_of_role = [role \in Roles |-> {}]
    /\ schema_writers = EmptyDict
    /\ personal_schemas = {}
    /\ pos = FirstPos
    /\ all_sql_to_run = <<>>
    /\ returned = <<>>
    /\ first_sql = <<>>
    /\ run = "first"
    /\ privconf = NoAnalyzer

TargetItems == {PS, PSWild, Wild("s"), Single("s", ""), Single("s", "t1")}

\* role a asks for any list of targets under one object kind
InitItems ==
    \E object_kind \in Kinds,
       read \in {Absent} \cup {List(l) : l \in Lists(TargetItems, MaxItems)},
       write \in {Absent} \cup {List(<<x>>) : x \in TargetItems},
       a_personal \in BOOLEAN,
       t1_owner \in {"a", "b"} :
        LET sp == [role \in Roles |->
                     CASE role = "a" ->
                            Config(FALSE, a_personal, {}, {}, Priv(object_kind, read, write))
                       [] role = "b" -> Config(FALSE, TRUE, {}, {"s"}, NoPrivileges)
                       [] role = "c" -> Config(TRUE, FALSE, {"b"}, {}, NoPrivileges)]
        IN  InitWith(sp, Ownership(sp, "b", t1_owner), {"c"}, EmptyCurrent, EmptyCurrent)

\* any member_of relation; role a may write in a schema, role c reads the tables of s
InitGraph ==
    \E member_of \in [Roles -> SUBSET Roles],
       write \in {Absent, List(<<Single("s", "")>>), List(<<PS>>), List(<<Single("u", "")>>)},
       b_personal \in BOOLEAN,
       c_superuser \in BOOLEAN :
        LET sp == [role \in Roles |->
                     CASE role = "a" ->
                            Config(FALSE, FALSE, member_of[role], {},
                                   Priv("schemas", Absent, write))
                       [] role = "b" ->
                            Config(FALSE, b_personal, member_of[role], {"s"}, NoPrivileges)
                       [] role = "c" ->
                            Config(c_superuser, FALSE, member_of[role], {},
                                   Priv("tables", List(<<Wild("s")>>), Absent))]
        IN  InitWith(sp, Ownership(sp, "b", "b"),
                     IF c_superuser THEN {"c"} ELSE {}, EmptyCurrent, EmptyCurrent)

\* the read and write lists of role a for tables
TablePrivilegesOfA ==
    {<<Absent, Absent>>,
     <<List(<<Wild("s")>>), Absent>>,
     <<List(<<Single("s", "t1")>>), List(<<Single("s", "t2")>>)>>,
     <<Absent, List(<<Wild("s")>>)>>,
     <<List(<<>>), List(<<Single("s", "t1")>>)>>}

\* the privileges of role b: object kind, read list, write list
PrivilegesOfB ==
    {<<"tables", Absent, Absent>>,
     <<"tables", List(<<PS>>), Absent>>,
     <<"tables", Absent, List(<<PS>>)>>,
     <<"tables", List(<<Single("g", "t1")>>), Absent>>,
     <<"schemas", List(<<PS>>), Absent>>,
     <<"tables", List(<<Wild("u")>>), Absent>>}

\* several roles with privileges, and a database that already holds some
InitRun ==
    \E pa \in TablePrivilegesOfA,
       pb \in PrivilegesOfB,
       superusers \in {{"c"}, {"a", "c"}, {}},
       t1_owner \in {"a", "b"},
       read_now \in {{}, {<<T1, "SELECT">>}, {<<T1, "SELECT">>, <<T2, "SELECT">>}},
       write_now \in {{}, {<<T1, "INSERT">>}},
       defaults_now \in {{}, {<<"b", "s", "SELECT">>},
                         {<<"a", "s", "SELECT">>, <<"c", "s", "SELECT">>}} :
        LET sp == [role \in Roles |->
                     CASE role = "a" ->
                            Config(FALSE, FALSE, {}, {}, Priv("tables", pa[1], pa[2]))
                       [] role = "b" ->
                            Config(FALSE, TRUE, {}, {"s"}, Priv(pb[1], pb[2], pb[3]))
                       [] role = "c" ->
                            Config(TRUE, FALSE, {"b"}, {}, Priv("tables", List(<<PS>>), Absent))]
        IN  InitWith(sp, Ownership(sp, "b", t1_owner), superusers,
                     [EmptyCurrent EXCEPT !["a"]["tables"] =
                         [read |-> read_now, write |-> write_now]],
                     [EmptyCurrent EXCEPT !["a"]["tables"].read = defaults_now])

Init == InitItems \/ InitGraph \/ InitRun

Spec == Init /\ [][Next]_vars

----------------------------------------------------------------------------
(* Properties *)

Statements(stmts) == {stmts[n] : n \in 1..Len(stmts)}

\* the analyzer constructed last belongs to the role, kind and access at pos
CurrentRole == RoleOrder[pos.i]

\* the lists of a role as the current call received them
ListsIn(rolename, object_kind) == spec_in[rolename].privileges[object_kind]

\* the items the analyzers of a role receive for an object kind
ItemsAsked(rolename, object_kind) ==
    SeqToSet(GetList(ListsIn(rolename, object_kind).read))
    \cup SeqToSet(GetList(ListsIn(rolename, object_kind).write))

\* a role that is analyzed asks for 'personal_schemas' under a kind other than schemas
KeywordMisused ==
    \E role \in Roles \ dbSuper, k \in Kinds \ {"schemas"} : PS \in ItemsAsked(role, k)

\* a role that is analyzed asks for a single target that has no owner
UnknownTarget(item, object_kind) ==
    item.form = "single" /\ OwnerOf(object_kind, ensure_quoted_identifier(item)) = NoRole

UnknownTargetAsked ==
    \E role \in Roles \ dbSuper, k \in Kinds :
        \E item \in ItemsAsked(role, k) : UnknownTarget(item, k)

\* the first item of the analyzer's list that the item loop refuses, 0 if none
FirstRefused(self) ==
    LET refused == {n \in 1..Len(self.desired_items) :
                      \/ self.desired_items[n] = PS /\ self.object_kind # "schemas"
                      \/ UnknownTarget(self.desired_items[n], self.object_kind)}
    IN  IF refused = {} THEN 0
        ELSE CHOOSE n \in refused : \A m \in refused : n <= m

\* the spec graph was resolved, and the call has not ended in a failure other
\* than one of the two authoring errors
NoOtherFailure ==
    /\ pc \in {"loop", "done", "failed"}
    /\ pc = "failed" => error \in {"personal_schemas", "does_not_exist"}

\* C1: fixed point. When the first call succeeded and its statements were applied
\* to the snapshot (each GRANT adds its entry to the role's current set, each
\* REVOKE removes it), the second call over the same spec does not fail and emits
\* no grant or revoke statement at all.
C1_FixedPoint ==
    run = "second" =>
        /\ pc # "failed"
        /\ \A st \in Statements(all_sql_to_run) \cup Statements(returned) :
              ~IsGrantOrRevoke(st)

\* the second call has returned after a first call that granted and revoked both
\* non-default and default privileges
C1_Witness ==
    /\ run = "second"
    /\ pc = "done"
    /\ \A kind \in {"GRANT", "REVOKE", "GRANT_DEFAULT", "REVOKE_DEFAULT"} :
          \E st \in Statements(first_sql) : st.stmt = kind

RECURSIVE Reach(_, _)

\* the least set that holds S and every role that lists one of its roles in member_of
Reach(sp, S) ==
    LET more == S \cup {role \in Roles : sp[role].member_of \cap S # {}}
    IN  IF more = S THEN S ELSE Reach(sp, more)

\* all direct and transitive members of a group
TransitiveMembers(sp, group) ==
    Reach(sp, {role \in Roles : group \in sp[role].member_of})

\* C2: get_members(group, spec) terminates for every spec, cycles in member_of
\* included, and returns the set of all direct and transitive members.
C2_GetMembersTerminates ==
    pc # "start" =>
        \A group \in Roles :
            /\ get_members(group, spec_in, 1).err = "none"
            /\ get_members(group, spec_in, 1).val = TransitiveMembers(spec_in, group)

\* C3: after identify_desired_objects no pair of desired_nondefaults names an
\* object whose owner is the analyzed role, and no GRANT is emitted to a role on
\* an object it owns, its own personal schema included.
C3_NoOwnedObjectDesired ==
    /\ privconf.active /\ privconf.err = "none" =>
          \A t \in privconf.desired_nondefaults :
              OwnerOf(privconf.object_kind, t[1]) # privconf.rolename
    /\ \A st \in Statements(all_sql_to_run) :
          st.stmt = "GRANT" => OwnerOf(st.object_kind, st.objname) # st.rolename

\* the schemas a role names in privileges.schemas.write, 'personal_schemas' replaced
\* by the personal-schema roles
NamedForWriting(sp, role) ==
    LET named == {ItemString(item) :
                    item \in SeqToSet(GetList(sp[role].privileges["schemas"].write))}
    IN  (named \ {"personal_schemas"})
        \cup (IF "personal_schemas" \in named
              THEN {r \in Roles : sp[r].has_personal_schema}
              ELSE {})

\* the schemas that have an owner in the spec
OwnedSchemas(sp) ==
    UNION {sp[role].owns : role \in Roles} \cup {r \in Roles : sp[r].has_personal_schema}

\* the writers the specification gives a schema
ExpectedWriters(sp, schema) ==
    LET configuring == {role \in Roles : schema \in NamedForWriting(sp, role)}
    IN  (IF schema \in OwnedSchemas(sp) THEN {determine_schema_owners(sp)[schema]} ELSE {})
        \cup configuring
        \cup UNION {TransitiveMembers(sp, role) : role \in configuring}
        \cup {role \in Roles : sp[role].is_superuser}

\* C4: determine_schema_writers returns, for every spec, a map in which the writer
\* set of each schema that has an owner or is named in a write list is: its owner
\* if any, every role naming it with all transitive members, and every superuser.
\* Stated here for the specs whose member_of relation get_members resolves and
\* whose write lists hold schema names and the keyword only.
C4_SchemaWriters ==
    (/\ pc \notin {"start", "writers"}
     /\ error # "RecursionError"
     /\ \A role \in Roles :
           \A item \in SeqToSet(GetList(spec_in[role].privileges["schemas"].write)) :
               item = PS \/ (item.form = "single" /\ item.name = "")) =>
        LET writers == determine_schema_writers(spec_in, members_of_role)
            named == OwnedSchemas(spec_in)
                     \cup UNION {NamedForWriting(spec_in, role) : role \in Roles}
        IN  /\ writers.err = "none"
            /\ DOMAIN writers.val = named
            /\ \A schema \in named : writers.val[schema] = ExpectedWriters(spec_in, schema)

\* C5: write implies read. The analyzer of access 'read' receives the role's read
\* list followed by every item of its write list for the same object kind, and
\* each write target that can be granted is a desired read privilege; the analyzer
\* of access 'write' receives exactly the write list.
C5_WriteImpliesRead ==
    privconf.active =>
        LET lists == ListsIn(privconf.rolename, privconf.object_kind)
            read_verbs == PRIVILEGE_MAP[privconf.object_kind]["read"]
        IN  /\ privconf.access = "read" =>
                  privconf.desired_items = GetList(lists.read) \o GetList(lists.write)
            /\ privconf.access = "write" =>
                  privconf.desired_items = GetList(lists.write)
            /\ (privconf.access = "read" /\ privconf.err = "none") =>
                  \A item \in SeqToSet(GetList(lists.write)) :
                      (/\ item.form = "single"
                       /\ OwnerOf(privconf.object_kind, ensure_quoted_identifier(item))
                             # privconf.rolename)
                      => \A verb \in read_verbs :
                            <<ensure_quoted_identifier(item), verb>>
                                \in privconf.desired_nondefaults

\* a read analyzer that was given a read list and a write target, and desires
\* the read privilege on the write target
C5_Witness ==
    /\ privconf.active
    /\ privconf.access = "read"
    /\ privconf.err = "none"
    /\ GetList(ListsIn(privconf.rolename, privconf.object_kind).read) # <<>>
    /\ \E item \in SeqToSet(GetList(ListsIn(privconf.rolename, privconf.object_kind).write)) :
          /\ item.form = "single"
          /\ item \notin SeqToSet(GetList(ListsIn(privconf.rolename, privconf.object_kind).read))
          /\ <<ensure_quoted_identifier(item), "SELECT">> \in privconf.desired_nondefaults

\* C6 as stated: if a non-superuser role asks for 'personal_schemas' under a kind
\* other than schemas, analysis fails with the personal_schemas authoring error
\* and no statement list is returned.  Stated for the calls that do not end in a
\* failure of another sort than the authoring errors.
C6_KeywordErrorAlways ==
    (KeywordMisused /\ NoOtherFailure) =>
        /\ pc # "done"
        /\ returned = <<>>
        /\ pc = "failed" => error = "personal_schemas"

\* C6 amended: with such a keyword in the spec the call never returns a statement
\* list; the analyzer that meets the keyword before any other refused item fails
\* with the personal_schemas authoring error without expanding it, whatever was
\* generated for earlier roles; an earlier failure is reported in its place.
C6_KeywordError ==
    /\ KeywordMisused => (pc # "done" /\ returned = <<>>)
    /\ (/\ privconf.active
        /\ FirstRefused(privconf) # 0
        /\ privconf.desired_items[FirstRefused(privconf)] = PS)
       => /\ privconf.err = "personal_schemas"
          /\ privconf.desired_nondefaults = {}
          /\ privconf.sql_to_run = <<>>
          /\ pc = "failed"
          /\ error = "personal_schemas"
          /\ returned = <<>>
    /\ error = "personal_schemas" =>
          /\ pc = "failed"
          /\ privconf.object_kind # "schemas"
          /\ PS \in SeqToSet(privconf.desired_items)

\* the keyword, folded from a write list into the read items, ends the call after
\* statements were generated for an earlier role
C6_Witness ==
    /\ pc = "failed"
    /\ error = "personal_schemas"
    /\ all_sql_to_run # <<>>
    /\ returned = <<>>
    /\ privconf.access = "read"
    /\ PS \in SeqToSet(GetList(ListsIn(privconf.rolename, privconf.object_kind).write))

\* C7 as stated: if a non-superuser role asks for a single target that has no
\* owner, analysis fails with the 'does not exist' error and no statement list is
\* returned.  Stated for the calls that do not end in a failure of another sort
\* than the authoring errors.
C7_UnknownObjectErrorAlways ==
    (UnknownTargetAsked /\ NoOtherFailure) =>
        /\ pc # "done"
        /\ returned = <<>>
        /\ pc = "failed" => error = "does_not_exist"

\* C7 amended: with such a target in the spec the call never returns a statement
\* list (it completes for the whole spec or returns nothing); the analyzer that
\* meets the target before any other refused item fails with the 'does not exist'
\* error; an earlier failure is reported in its place.
C7_UnknownObjectError ==
    /\ UnknownTargetAsked => (pc # "done" /\ returned = <<>>)
    /\ (/\ privconf.active
        /\ FirstRefused(privconf) # 0
        /\ privconf.desired_items[FirstRefused(privconf)] # PS)
       => /\ privconf.err = "does_not_exist"
          /\ privconf.sql_to_run = <<>>
          /\ pc = "failed"
          /\ error = "does_not_exist"
          /\ returned = <<>>
    /\ pc = "failed" => returned = <<>>
    /\ pc = "done" => (error = "none" /\ pos.i > Len(RoleOrder) /\ returned = all_sql_to_run)

\* an unknown single target ends the call with the 'does not exist' error
C7_Witness ==
    /\ pc = "failed"
    /\ error = "does_not_exist"
    /\ privconf.err = "does_not_exist"
    /\ all_sql_to_run # <<>>

\* C8: a role the database reports as superuser gets exactly one skip note and no
\* grant or revoke; no analyzer is run for it, so no authoring error comes from
\* its configuration.
C8_SuperusersSkipped ==
    /\ privconf.active => privconf.rolename \notin dbSuper
    /\ \A st \in Statements(all_sql_to_run) :
          IF IsGrantOrRevoke(st) THEN st.rolename \notin dbSuper
                                 ELSE st.rolename \in dbSuper
    /\ pc = "done" =>
          \A role \in dbSuper :
              Cardinality({n \in 1..Len(returned) : returned[n] = SkipNote(role)}) = 1
    /\ (pc = "failed" /\ error \in {"personal_schemas", "does_not_exist"}) =>
          CurrentRole \notin dbSuper

\* the call returned although a superuser is configured with the misplaced keyword
\* and another superuser holds privileges in the database
C8_Witness ==
    /\ pc = "done"
    /\ \E role \in dbSuper :
          PS \in SeqToSet(GetList(spec_in[role].privileges["tables"].read))
    /\ \E role \in dbSuper : curNondef[role]["tables"].read # {}
    /\ \E st \in Statements(returned) : IsGrantOrRevoke(st)

\* C9: analyze_privileges leaves the specification unchanged: after a run every
\* read and write list holds exactly the items it held before the run.
C9_SpecUnchanged ==
    pc = "done" => spec = spec_in

\* the schemas the item loop defers: those of 'schema.*' items and, through
\* 'personal_schemas.*', the personal schemas
SchemasEncountered(self) ==
    {item.schema : item \in {x \in SeqToSet(self.desired_items) : x.form = "wildcard"}}
    \cup (IF PSWild \in SeqToSet(self.desired_items) THEN personal_schemas ELSE {})

\* C10: for an object kind with default privileges, after identify_desired_objects
\* desired_defaults is exactly the (writer, schema, verb) triples over the schemas
\* encountered, their writers other than the analyzed role, and the verbs of the
\* (kind, access) pair; the role is never its own grantor; for object kind
\* 'schemas' no default grant or revoke is emitted.
C10_DesiredDefaults ==
    /\ (privconf.active /\ privconf.err = "none"
          /\ privconf.object_kind \in OBJECTS_WITH_DEFAULTS) =>
          privconf.desired_defaults =
              UNION {{<<writer, schema, verb>> :
                         writer \in schema_writers[schema] \ {privconf.rolename},
                         verb \in PRIVILEGE_MAP[privconf.object_kind][privconf.access]} :
                     schema \in SchemasEncountered(privconf)}
    /\ \A t \in privconf.desired_defaults : t[1] # privconf.rolename
    /\ \A st \in Statements(all_sql_to_run) :
          st.stmt \in {"GRANT_DEFAULT", "REVOKE_DEFAULT"} => st.object_kind # "schemas"

\* desired defaults over personal schemas, one of which the analyzed role writes in
C10_Witness ==
    /\ privconf.active
    /\ privconf.err = "none"
    /\ privconf.object_kind \in OBJECTS_WITH_DEFAULTS
    /\ PSWild \in SeqToSet(privconf.desired_items)
    /\ privconf.desired_defaults # {}
    /\ \E schema \in SchemasEncountered(privconf) :
          privconf.rolename \in schema_writers[schema]

====
